---- MODULE Spec2Model ----
(***************************************************************************)
(* Model of the Firestore REST client, class FirebaseRestApi of            *)
(* app/services/firebase-restapi.ts (src/unnamed/part_003).                *)
(*                                                                         *)
(* A JavaScript string is a sequence of characters, each character a       *)
(* one-element token of Alphabet.  Values handed to the validators are     *)
(* JavaScript values: a record with the typeof tag and, for a string, its  *)
(* characters.                                                             *)
(***************************************************************************)
EXTENDS Integers, Sequences, FiniteSets, Bags, TLC

\* ------------------------------------------------------------------ bounds
\* Longest raw string the validators are tried on, exhaustively.
MaxLen == 3
\* Number of calls of one instance that may await the transport at once.
MaxInFlight == 2
\* Most '/'-separated segments of the longer document paths tried.
MaxSegments == 4

\* -------------------------------------------------------------- characters
SP == " "
LF == "\n"
\* U+007F DELETE, a control character that String.prototype.trim keeps.
DEL == "DEL"

Alphabet == {"a", "b", ".", "/", "?", "#", "&", SP, LF, DEL}

\* The characters String.prototype.trim strips (white space and line
\* terminators), among Alphabet.
IsWhiteSpace(c) == c \in {SP, LF}

\* Mutant: the class without \u007f.
IsControlCharC0Only(c) == c = LF

\* The class /[\u0000-\u001f\u007f]/, among Alphabet.
IsControlChar(c) == c \in {LF, DEL}

\* All strings over Alphabet of length at most n.
StringsUpTo(n) == UNION {[1..k -> Alphabet] : k \in 0..n}

\* ----------------------------------------------------------- string methods
RECURSIVE TrimStart(_)
TrimStart(s) ==
    IF s # <<>> /\ IsWhiteSpace(Head(s)) THEN TrimStart(Tail(s)) ELSE s

RECURSIVE TrimEnd(_)
TrimEnd(s) ==
    IF s # <<>> /\ IsWhiteSpace(s[Len(s)])
    THEN TrimEnd(SubSeq(s, 1, Len(s) - 1))
    ELSE s

\* A trim of the leading whitespace only.
TrimLeadingOnly(s) == TrimStart(s)

\* String.prototype.trim
Trim(s) == TrimEnd(TrimStart(s))

\* String.prototype.includes
Includes(s, sub) ==
    \E i \in 1..(Len(s) - Len(sub) + 1) : SubSeq(s, i, i + Len(sub) - 1) = sub

\* String.prototype.split with a one-character separator: "" splits to [""].
RECURSIVE Split(_, _)
Split(s, sep) ==
    IF \A i \in 1..Len(s) : s[i] # sep
    THEN <<s>>
    ELSE LET i == CHOOSE j \in 1..Len(s) :
                      s[j] = sep /\ \A k \in 1..(j - 1) : s[k] # sep
         IN  <<SubSeq(s, 1, i - 1)>> \o Split(SubSeq(s, i + 1, Len(s)), sep)

\* Array.prototype.join
RECURSIVE Join(_, _)
Join(parts, sep) ==
    IF parts = <<>> THEN <<>>
    ELSE IF Len(parts) = 1 THEN parts[1]
    ELSE parts[1] \o <<sep>> \o Join(Tail(parts), sep)

\* -------------------------------------------------------- JavaScript values
Str(s) == [type |-> "string", s |-> s]
Null == [type |-> "null", s |-> <<>>]
Undefined == [type |-> "undefined", s |-> <<>>]
\* A truthy value that is no string (an object, an array).
Obj == [type |-> "object", s |-> <<>>]

\* An object literal: the record of its own properties ({} has none).
Object(properties) == [type |-> "object", properties |-> properties]
EmptyObject == Object([k \in {} |-> k])

\* !v for the values above
Falsy(v) == v.type \in {"null", "undefined"} \/ (v.type = "string" /\ v.s = <<>>)

\* ------------------------------------------------------------ error messages
ErrCollectionNotString == "Collection name must be a non-empty string"
ErrCollectionEmpty == "Collection name cannot be empty"
ErrCollectionTraversal ==
    "Collection name cannot contain path separators or traversal sequences"
ErrCollectionInjection ==
    "Collection name cannot contain URL query or fragment characters"
ErrCollectionControl == "Collection name cannot contain control characters"

ErrPathNotString == "Document path must be a non-empty string"
ErrPathEmpty == "Document path cannot be empty"
ErrPathTraversal == "Document path cannot contain path traversal sequences"
ErrPathInjection == "Document path cannot contain URL query or fragment characters"
ErrPathControl == "Document path cannot contain control characters"
ErrPathPattern ==
    "Document path must follow the pattern: collection/document[/subcollection/subdocument]..."
ErrPathEmptySegment == "Document path cannot contain empty segments"

Return(v) == [ok |-> TRUE, value |-> v]
Throw(msg) == [ok |-> FALSE, error |-> msg]

\* ---------------------------------------------------------------- validators
\* Mutant: the injection check without '&'.
validateCollectionNameNoAmpersand(collectionName) ==
    IF Falsy(collectionName) \/ collectionName.type # "string"
    THEN Throw(ErrCollectionNotString)
    ELSE LET trimmed == Trim(collectionName.s) IN
         IF Len(trimmed) = 0 THEN Throw(ErrCollectionEmpty)
         ELSE IF Includes(trimmed, <<".", ".">>) \/ Includes(trimmed, <<"/">>)
         THEN Throw(ErrCollectionTraversal)
         ELSE IF Includes(trimmed, <<"?">>) \/ Includes(trimmed, <<"#">>)
         THEN Throw(ErrCollectionInjection)
         ELSE IF \E i \in 1..Len(trimmed) : IsControlChar(trimmed[i])
         THEN Throw(ErrCollectionControl)
         ELSE Return(trimmed)

validateCollectionName(collectionName) ==
    IF Falsy(collectionName) \/ collectionName.type # "string"
    THEN Throw(ErrCollectionNotString)
    ELSE LET trimmed == Trim(collectionName.s) IN
         IF Len(trimmed) = 0 THEN Throw(ErrCollectionEmpty)
         ELSE IF Includes(trimmed, <<".", ".">>) \/ Includes(trimmed, <<"/">>)
         THEN Throw(ErrCollectionTraversal)
         ELSE IF \/ Includes(trimmed, <<"?">>)
                 \/ Includes(trimmed, <<"#">>)
                 \/ Includes(trimmed, <<"&">>)
         THEN Throw(ErrCollectionInjection)
         ELSE IF \E i \in 1..Len(trimmed) : IsControlChar(trimmed[i])
         THEN Throw(ErrCollectionControl)
         ELSE Return(trimmed)

\* Mutant: the segment count checked for its minimum only, not its parity.
validateDocumentPathNoParity(documentPath) ==
    IF Falsy(documentPath) \/ documentPath.type # "string"
    THEN Throw(ErrPathNotString)
    ELSE LET trimmed == Trim(documentPath.s)
             pathParts == Split(trimmed, "/")
         IN
         IF Len(trimmed) = 0 THEN Throw(ErrPathEmpty)
         ELSE IF Includes(trimmed, <<".", ".">>) THEN Throw(ErrPathTraversal)
         ELSE IF \/ Includes(trimmed, <<"?">>)
                 \/ Includes(trimmed, <<"#">>)
                 \/ Includes(trimmed, <<"&">>)
         THEN Throw(ErrPathInjection)
         ELSE IF \E i \in 1..Len(trimmed) : IsControlChar(trimmed[i])
         THEN Throw(ErrPathControl)
         ELSE IF Len(pathParts) < 2
         THEN Throw(ErrPathPattern)
         ELSE IF \E i \in 1..Len(pathParts) : Len(Trim(pathParts[i])) = 0
         THEN Throw(ErrPathEmptySegment)
         ELSE Return(trimmed)

validateDocumentPath(documentPath) ==
    IF Falsy(documentPath) \/ documentPath.type # "string"
    THEN Throw(ErrPathNotString)
    ELSE LET trimmed == Trim(documentPath.s)
             pathParts == Split(trimmed, "/")
         IN
         IF Len(trimmed) = 0 THEN Throw(ErrPathEmpty)
         ELSE IF Includes(trimmed, <<".", ".">>) THEN Throw(ErrPathTraversal)
         ELSE IF \/ Includes(trimmed, <<"?">>)
                 \/ Includes(trimmed, <<"#">>)
                 \/ Includes(trimmed, <<"&">>)
         THEN Throw(ErrPathInjection)
         ELSE IF \E i \in 1..Len(trimmed) : IsControlChar(trimmed[i])
         THEN Throw(ErrPathControl)
         ELSE IF Len(pathParts) < 2 \/ Len(pathParts) % 2 # 0
         THEN Throw(ErrPathPattern)
         ELSE IF \E i \in 1..Len(pathParts) : Len(Trim(pathParts[i])) = 0
         THEN Throw(ErrPathEmptySegment)
         ELSE Return(trimmed)

\* --------------------------------------------------------------------- state
VARIABLES
    config,     \* this.config: [apiKey, projectId], fixed by the constructor
    idToken,    \* this.idToken: <<>> when the constructor got none, else <<token>>
    uid,        \* this.uid: "" until a verification stores a user id
    calls,      \* the bag of invocations awaiting the transport
    last,       \* the invocation that settled last, as its caller observed it
    resolution, \* history: <<>>, or <<[token, localId]>> of the verification
                \* that resolved last
    input       \* the value a caller is about to hand to a validator

vars == <<config, idToken, uid, calls, last, resolution, input>>

\* ---------------------------------------------------------------- test data
\* An API key and a project id with characters that the encodings change.
Configs == { [apiKey |-> <<"a", "&">>, projectId |-> <<"b", "#">>] }

Tokens == {"tok1", "tok2"}

\* The constructor's idToken argument: absent, empty, or a token.
TokenArgs == {<<>>, <<"">>, <<"tok1">>}

\* Collection names and document paths handed to the CRUD operations.
Args == { Undefined, Str(<<"a">>), Str(<<"a", "/", "b">>), Str(<<"a", "?">>) }

\* Native values, as a caller writes them in plain data.
NString(s) == [t |-> "string", string |-> s]
NNumber(n) == [t |-> "number", number |-> n]
NBoolean(b) == [t |-> "boolean", boolean |-> b]
NNull == [t |-> "null"]
NArray(values) == [t |-> "array", values |-> values]
NObject(properties) == [t |-> "object", properties |-> properties]

\* The data of createDocument and updateDocument: a document in wire form,
\* and plain data.
DataSet ==
    { [fields |-> [title |-> [stringValue |-> "T"]]],
      [title |-> NString("T"), year |-> NNumber(2023)] }

\* What the account-info endpoint may answer.
VerifyResponses ==
    { [settled |-> "fulfilled", ok |-> TRUE, status |-> 200, statusText |-> "OK",
       body |-> [users |-> u]] :
        u \in { <<>>, <<[localId |-> "u1"]>>,
                <<[localId |-> "u2"], [localId |-> "u1"]>> } }
    \cup
    { [settled |-> "fulfilled", ok |-> TRUE, status |-> 200, statusText |-> "OK",
       body |-> [kind |-> "identitytoolkit#GetAccountInfoResponse"]],
      [settled |-> "fulfilled", ok |-> FALSE, status |-> 401,
       statusText |-> "Unauthorized",
       body |-> [error |-> [message |-> "Invalid token"]]] }

\* What the document endpoint may answer.
CrudResponses ==
    { [settled |-> "fulfilled", ok |-> TRUE, status |-> 200, statusText |-> "OK",
       body |-> [name |-> <<"projects", "/", "b", "/", "databases", "/",
                            "(default)", "/", "documents", "/", "a", "/",
                            "b1">>,
                 fields |-> [title |-> [stringValue |-> "T"],
                             year |-> [integerValue |-> "2023"]]]],
      [settled |-> "fulfilled", ok |-> FALSE, status |-> 403,
       statusText |-> "Forbidden",
       body |-> [error |-> [message |-> "PERMISSION_DENIED"]]] }

\* What the document endpoint may answer a collection listing: a page of
\* documents, the object without properties (no documents), or a refusal.
CollectionResponses ==
    { [settled |-> "fulfilled", ok |-> TRUE, status |-> 200, statusText |-> "OK",
       body |-> [documents |-> <<r.body>>]] : r \in {x \in CrudResponses : x.ok} }
    \cup
    { [settled |-> "fulfilled", ok |-> TRUE, status |-> 200, statusText |-> "OK",
       body |-> EmptyObject] }
    \cup {r \in CrudResponses : ~r.ok}

\* The transport call itself rejecting (no response at all).
NetworkFailure == [settled |-> "rejected", reason |-> "TypeError: fetch failed"]

\* ---------------------------------------------------------------- encodings
\* JSON.stringify: the text of v; injective, and never v itself.
JSONstringify(v) == [json |-> v]

\* encodeURIComponent, character by character.
EncodeChar(c) ==
    CASE c = "/" -> "%2F"
      [] c = "?" -> "%3F"
      [] c = "#" -> "%23"
      [] c = "&" -> "%26"
      [] c = SP -> "%20"
      [] c = LF -> "%0A"
      [] c = DEL -> "%7F"
      [] OTHER -> c

encodeURIComponent(s) == [i \in 1..Len(s) |-> EncodeChar(s[i])]

\* The URL parser's path percent-encoding, of the characters a validated
\* path can hold.
PathEncodeChar(c) ==
    CASE c = SP -> "%20"
      [] c = DEL -> "%7F"
      [] OTHER -> c

\* URLSearchParams serialisation (application/x-www-form-urlencoded).
FormEncodeChar(c) ==
    CASE c = SP -> "+"
      [] c \in {"a", "b", "."} -> c
      [] OTHER -> EncodeChar(c)

\* The segments new URL(relative, base) appends to the directory of base:
\* a "." segment is dropped, and leaves an empty segment when it is the last.
RECURSIVE RelativeSegments(_)
RelativeSegments(parts) ==
    IF parts = <<>> THEN <<>>
    ELSE IF Head(parts) = <<".">>
    THEN (IF Len(parts) = 1 THEN <<<<>>>> ELSE RelativeSegments(Tail(parts)))
    ELSE <<[i \in 1..Len(Head(parts)) |-> PathEncodeChar(Head(parts)[i])]>>
         \o RelativeSegments(Tail(parts))

\* The ASCII letters among the characters of the inputs.
Letters == {"a", "b", "h", "t", "p", "s"}

\* The position of the ':' that ends a scheme at the start of s: letters,
\* then ':'; 0 when s starts with no scheme.
SchemeEnd(s) ==
    IF \E i \in 2..Len(s) : s[i] = ":" /\ \A k \in 1..(i - 1) : s[k] \in Letters
    THEN CHOOSE i \in 2..Len(s) : s[i] = ":" /\ \A k \in 1..(i - 1) : s[k] \in Letters
    ELSE 0

\* The text of a sequence of characters.
RECURSIVE Text(_)
Text(s) == IF s = <<>> THEN "" ELSE Head(s) \o Text(Tail(s))

\* s without its leading '/' characters.
RECURSIVE SkipSlashes(_)
SkipSlashes(s) ==
    IF s # <<>> /\ Head(s) = "/" THEN SkipSlashes(Tail(s)) ELSE s

\* The path of a relative reference without a scheme, resolved against a base
\* path that ends in "/": a leading "/" replaces the base path.
ResolvePath(relative, basePath) ==
    IF relative # <<>> /\ Head(relative) = "/"
    THEN <<"/">> \o Join(RelativeSegments(Split(Tail(relative), "/")), "/")
    ELSE basePath \o Join(RelativeSegments(Split(relative, "/")), "/")

\* new URL(relative, baseUrl).toString() for an https base that ends in "/":
\* a URL is its origin, its path (the pieces that concatenate to it) and its
\* query. A relative reference that starts with the base's own scheme is
\* resolved as though it had none; one that starts with another special scheme
\* (http) is an absolute URL whose host follows the scheme; one that starts with any
\* other scheme is an absolute URL with an opaque path and no origin.
NewUrl(relative, origin, basePath) ==
    LET i == SchemeEnd(relative)
        scheme == SubSeq(relative, 1, i - 1)
        rest == SubSeq(relative, i + 1, Len(relative))
        parts == Split(SkipSlashes(rest), "/")
    IN  IF i = 0
        THEN [origin |-> origin, path |-> ResolvePath(relative, basePath),
              query |-> {}]
        ELSE IF scheme = <<"h", "t", "t", "p", "s">>
        THEN [origin |-> origin, path |-> ResolvePath(rest, basePath),
              query |-> {}]
        ELSE IF scheme = <<"h", "t", "t", "p">>
        THEN [origin |-> Text(scheme) \o "://" \o Text(Head(parts)),
              path |-> <<"/">> \o Join(RelativeSegments(Tail(parts)), "/"),
              query |-> {}]
        ELSE [origin |-> "null", path |-> rest, query |-> {}]

\* ------------------------------------------------------------- URL builders
buildAuthUrl(endpoint) ==
    LET url == NewUrl(endpoint, "https://www.googleapis.com",
                      <<"/identitytoolkit/v3/relyingparty/">>)
    IN  [url EXCEPT !.query =
            {<<"key", [i \in 1..Len(config.apiKey) |->
                          FormEncodeChar(config.apiKey[i])]>>}]

\* Mutant: the API key attached to the document URL as it is to the auth URL.
buildFirestoreUrlWithKey(path, isCollection) ==
    LET basePath == <<"/v1/projects/">> \o encodeURIComponent(config.projectId)
                    \o <<"/databases/(default)/documents/">>
        validPath == IF isCollection THEN validateCollectionName(path)
                     ELSE validateDocumentPath(path)
    IN  IF validPath.ok
        THEN Return([NewUrl(validPath.value, "https://firestore.googleapis.com",
                            basePath)
                     EXCEPT !.query =
                        {<<"key", [i \in 1..Len(config.apiKey) |->
                                      FormEncodeChar(config.apiKey[i])]>>}])
        ELSE validPath

\* Mutant: the URL built from the path as given, without validating it.
buildFirestoreUrlUnvalidated(path, isCollection) ==
    Return(NewUrl(path.s, "https://firestore.googleapis.com",
                  <<"/v1/projects/">> \o encodeURIComponent(config.projectId)
                  \o <<"/databases/(default)/documents/">>))

buildFirestoreUrl(path, isCollection) ==
    LET basePath == <<"/v1/projects/">> \o encodeURIComponent(config.projectId)
                    \o <<"/databases/(default)/documents/">>
        validPath == IF isCollection THEN validateCollectionName(path)
                     ELSE validateDocumentPath(path)
    IN  IF validPath.ok
        THEN Return(NewUrl(validPath.value, "https://firestore.googleapis.com",
                           basePath))
        ELSE validPath

\* ------------------------------------------------------------------ headers
ErrAuthRequired ==
    "Authentication required. ID token must be provided for this operation."

\* Mutant: this.idToken === undefined
NoTokenUndefinedOnly == idToken = <<>>

\* !this.idToken
NoToken == idToken = <<>> \/ idToken = <<"">>

\* Mutant: the Authorization header added for every token that is not
\* undefined, the empty token included.
prepareHeadersDefinedToken(requireAuth) ==
    IF idToken # <<>>
    THEN Return(("Content-Type" :> "application/json")
                @@ ("Authorization" :> ("Bearer " \o idToken[1])))
    ELSE IF requireAuth THEN Throw(ErrAuthRequired)
    ELSE Return("Content-Type" :> "application/json")

prepareHeaders(requireAuth) ==
    IF ~NoToken
    THEN Return(("Content-Type" :> "application/json")
                @@ ("Authorization" :> ("Bearer " \o idToken[1])))
    ELSE IF requireAuth THEN Throw(ErrAuthRequired)
    ELSE Return("Content-Type" :> "application/json")

\* ------------------------------------------------------- invocation records
Idle == [op |-> "idle"]

\* An Error object: its message, and the serialized data the message embeds.
Error(message, data) == [message |-> message, data |-> data]
NoData == <<>>

Resolved(value) == [kind |-> "resolved", value |-> value]
Rejected(error) == [kind |-> "rejected", error |-> error]
Void == <<>>

\* What a settled invocation did, as its caller and the mocks observed it: how
\* it settled, how often it called the transport, with what request
\* (<<>> or <<request>>), what the transport answered (<<>> or <<response>>),
\* and the error records it wrote with logger.error.
Settled(op, arg, outcome, request, response, logged) ==
    [op |-> op, arg |-> arg, outcome |-> outcome, fetches |-> Len(request),
     request |-> request, response |-> response, logged |-> logged]

\* An invocation suspended at `await this.boundFetch(url, init)`: its request,
\* and how often it has called boundFetch so far.
Awaiting(op, arg, url, init) ==
    [op |-> op, arg |-> arg, request |-> [url |-> url, init |-> init],
     fetches |-> 1]

\* The invocations awaiting the transport.
InFlight == BagToSet(calls)

\* Another invocation may start to await the transport.
MayAwait == BagCardinality(calls) < MaxInFlight

CrudOps ==
    {"getCollection", "getDocument", "createDocument", "updateDocument",
     "deleteDocument"}
VerifyOps == {"verifyAndSetIdToken", "validateIdToken"}

\* ----------------------------------------------------------------- getUid
ErrNotValidated ==
    "ID token has not been validated yet. Call validateIdToken() first."

\* Mutant: the user id returned without the check.
getUidUnchecked == Return(uid)

getUid == IF uid = "" THEN Throw(ErrNotValidated) ELSE Return(uid)

GetUid ==
    /\ last' = Settled("getUid", Void,
                       IF getUid.ok THEN Resolved(getUid.value)
                       ELSE Rejected(Error(getUid.error, NoData)),
                       <<>>, <<>>, <<>>)
    /\ UNCHANGED <<config, idToken, uid, calls, resolution, input>>

\* ------------------------------------------------- verifyAndSetIdToken
ErrVerifyFailed == "Failed to verify ID token: "
\* Mutant: the no-user case thrown with the verification-failed message.
ErrNoUserAsVerifyFailed == "Failed to verify ID token: "
ErrNoUser == "No user found for the provided token"

\* Up to the await of boundFetch: the request to the account-info endpoint.
VerifyRequest(op, arg, token) ==
    /\ MayAwait
    /\ calls' = calls (+) SetToBag({
          Awaiting(op, arg, buildAuthUrl(<<"getAccountInfo">>),
                   [method |-> "POST",
                    headers |-> ("Content-Type" :> "application/json"),
                    body |-> JSONstringify([idToken |-> token])])})
    /\ UNCHANGED <<config, idToken, uid, last, resolution, input>>

VerifyAndSetIdToken(token) ==
    /\ VerifyRequest("verifyAndSetIdToken", token, token)

\* Mutant: the response body logged as parsed, not serialized.
VerifyLogRecordUnserialized(response) ==
    [message |-> "Firebase token verification failed",
     context |-> [status |-> response.status,
                  statusText |-> response.statusText,
                  responseData |-> response.body,
                  action |-> "verify_token"]]

\* The error record of a failed verification.
VerifyLogRecord(response) ==
    [message |-> "Firebase token verification failed",
     context |-> [status |-> response.status,
                  statusText |-> response.statusText,
                  responseData |-> JSONstringify(response.body),
                  action |-> "verify_token"]]

\* !data.users || data.users.length === 0
NoUsers(data) == "users" \notin DOMAIN data \/ Len(data.users) = 0

\* Mutant: the user id taken from the last user of the response.
LastLocalId(data) == data.users[Len(data.users)].localId

\* data.users[0].localId
FirstLocalId(data) == data.users[1].localId

\* Mutant: the user id is resolved once; a later verification that succeeds
\* leaves it as it is.
VerifyResponseResolvingOnce(call, response) ==
    /\ call \in InFlight
    /\ call.op \in VerifyOps
    /\ calls' = calls (-) SetToBag({call})
    /\ IF response.settled = "rejected"
       THEN /\ last' = Settled(call.op, call.arg,
                               Rejected(Error(response.reason, NoData)),
                               <<call.request>>, <<response>>, <<>>)
            /\ UNCHANGED <<uid, resolution>>
       ELSE IF ~response.ok
       THEN /\ last' = Settled(call.op, call.arg,
                               Rejected(Error(ErrVerifyFailed,
                                              JSONstringify(response.body))),
                               <<call.request>>, <<response>>,
                               <<VerifyLogRecord(response)>>)
            /\ UNCHANGED <<uid, resolution>>
       ELSE IF NoUsers(response.body)
       THEN /\ last' = Settled(call.op, call.arg,
                               Rejected(Error(ErrNoUser, NoData)),
                               <<call.request>>, <<response>>, <<>>)
            /\ UNCHANGED <<uid, resolution>>
       ELSE /\ IF uid = ""
               THEN /\ uid' = FirstLocalId(response.body)
                    /\ resolution' =
                          <<[token |-> call.request.init.body.json.idToken,
                             response |-> response]>>
               ELSE UNCHANGED <<uid, resolution>>
            /\ last' = Settled(call.op, call.arg, Resolved(Void),
                               <<call.request>>, <<response>>, <<>>)
    /\ UNCHANGED <<config, idToken, input>>

\* Mutant: a verification that fails forgets the user id resolved before.
VerifyResponseForgettingUid(call, response) ==
    /\ call \in InFlight
    /\ call.op \in VerifyOps
    /\ calls' = calls (-) SetToBag({call})
    /\ IF \/ response.settled = "rejected"
          \/ ~response.ok
          \/ NoUsers(response.body)
       THEN /\ last' = Settled(call.op, call.arg,
                               Rejected(Error(ErrVerifyFailed, NoData)),
                               <<call.request>>, <<response>>, <<>>)
            /\ uid' = ""
            /\ resolution' = <<>>
       ELSE /\ uid' = FirstLocalId(response.body)
            /\ resolution' = <<[token |-> call.request.init.body.json.idToken,
                                 response |-> response]>>
            /\ last' = Settled(call.op, call.arg, Resolved(Void),
                               <<call.request>>, <<response>>, <<>>)
    /\ UNCHANGED <<config, idToken, input>>

\* From the transport's answer to the end of verifyAndSetIdToken.
VerifyResponse(call, response) ==
    /\ call \in InFlight
    /\ call.op \in VerifyOps
    /\ calls' = calls (-) SetToBag({call})
    /\ IF response.settled = "rejected"
       THEN /\ last' = Settled(call.op, call.arg,
                               Rejected(Error(response.reason, NoData)),
                               <<call.request>>, <<response>>, <<>>)
            /\ UNCHANGED <<uid, resolution>>
       ELSE IF ~response.ok
       THEN /\ last' = Settled(call.op, call.arg,
                               Rejected(Error(ErrVerifyFailed,
                                              JSONstringify(response.body))),
                               <<call.request>>, <<response>>,
                               <<VerifyLogRecord(response)>>)
            /\ UNCHANGED <<uid, resolution>>
       ELSE IF NoUsers(response.body)
       THEN /\ last' = Settled(call.op, call.arg,
                               Rejected(Error(ErrNoUser, NoData)),
                               <<call.request>>, <<response>>, <<>>)
            /\ UNCHANGED <<uid, resolution>>
       ELSE /\ uid' = FirstLocalId(response.body)
            /\ resolution' = <<[token |-> call.request.init.body.json.idToken,
                                 response |-> response]>>
            /\ last' = Settled(call.op, call.arg, Resolved(Void),
                               <<call.request>>, <<response>>, <<>>)
    /\ UNCHANGED <<config, idToken, input>>

\* ------------------------------------------------------- validateIdToken
\* Mutant: only an absent token skips the verification; an empty one is sent.
ValidateIdTokenEmptySent ==
    IF idToken = <<>>
    THEN /\ last' = Settled("validateIdToken", Void, Resolved(Void),
                            <<>>, <<>>, <<>>)
         /\ UNCHANGED <<config, idToken, uid, calls, resolution, input>>
    ELSE VerifyRequest("validateIdToken", Void, idToken[1])

ValidateIdToken ==
    IF NoToken
    THEN /\ last' = Settled("validateIdToken", Void, Resolved(Void),
                            <<>>, <<>>, <<>>)
         /\ UNCHANGED <<config, idToken, uid, calls, resolution, input>>
    ELSE VerifyRequest("validateIdToken", Void, idToken[1])

\* ---------------------------------------------------------- CRUD operations
\* Up to the await of boundFetch.  The headers are prepared, then the
\* arguments of boundFetch are evaluated: buildFirestoreUrl throws before
\* boundFetch is called.  `body` is <<>>, or <<[data, text]>>: the caller's data
\* and the body text made of it.
CrudRequest(op, arg, isCollection, method, body) ==
    LET headers == prepareHeaders(FALSE)
        url == buildFirestoreUrl(arg, isCollection)
    IN  IF ~headers.ok
        THEN /\ last' = Settled(op, arg, Rejected(Error(headers.error, NoData)),
                                <<>>, <<>>, <<>>)
             /\ UNCHANGED <<config, idToken, uid, calls, resolution, input>>
        ELSE IF ~url.ok
        THEN /\ last' = Settled(op, arg, Rejected(Error(url.error, NoData)),
                                <<>>, <<>>, <<>>)
             /\ UNCHANGED <<config, idToken, uid, calls, resolution, input>>
        ELSE /\ MayAwait
             /\ calls' = calls (+) SetToBag({
                   IF body = <<>>
                   THEN Awaiting(op, arg, url.value,
                                 [method |-> method, headers |-> headers.value])
                   ELSE [data |-> body[1].data]
                        @@ Awaiting(op, arg, url.value,
                                    [method |-> method, headers |-> headers.value,
                                     body |-> body[1].text])})
             /\ UNCHANGED <<config, idToken, uid, last, resolution, input>>

\* From the transport's answer to the end of the operation.  `key` names the
\* argument in the error record; `returnsBody` is FALSE for deleteDocument.
CrudResponse(call, op, response, message, key, action, returnsBody) ==
    /\ call \in InFlight
    /\ call.op = op
    /\ calls' = calls (-) SetToBag({call})
    /\ last' =
         IF response.settled = "rejected"
         THEN Settled(op, call.arg, Rejected(Error(response.reason, NoData)),
                      <<call.request>>, <<response>>, <<>>)
         ELSE IF ~response.ok
         THEN Settled(op, call.arg,
                      Rejected(Error(message \o ": ", JSONstringify(response.body))),
                      <<call.request>>, <<response>>,
                      <<[message |-> message,
                         context |-> (("error" :> JSONstringify(response.body))
                                      @@ (key :> call.arg)
                                      @@ ("action" :> action))]>>)
         ELSE Settled(op, call.arg,
                      Resolved(IF returnsBody THEN response.body ELSE Void),
                      <<call.request>>, <<response>>, <<>>)
    /\ UNCHANGED <<config, idToken, uid, resolution, input>>

GetCollection(collectionName) ==
    /\ CrudRequest("getCollection", collectionName, TRUE, "GET", <<>>)

\* Mutant: a failed transport call repeated once before the operation settles.
GetCollectionResponseRetrying(call, response) ==
    /\ call \in InFlight
    /\ call.op = "getCollection"
    /\ IF call.fetches = 1 /\ (response.settled = "rejected" \/ ~response.ok)
       THEN /\ calls' = (calls (-) SetToBag({call}))
                         (+) SetToBag({[call EXCEPT !.fetches = 2]})
            /\ UNCHANGED last
       ELSE /\ calls' = calls (-) SetToBag({call})
            /\ last' =
                 IF response.settled = "rejected"
                 THEN Settled(call.op, call.arg,
                              Rejected(Error(response.reason, NoData)),
                              [i \in 1..call.fetches |-> call.request],
                              <<response>>, <<>>)
                 ELSE IF ~response.ok
                 THEN Settled(call.op, call.arg,
                              Rejected(Error("Failed to get collection: ",
                                             JSONstringify(response.body))),
                              [i \in 1..call.fetches |-> call.request],
                              <<response>>, <<>>)
                 ELSE Settled(call.op, call.arg, Resolved(response.body),
                              [i \in 1..call.fetches |-> call.request],
                              <<response>>, <<>>)
    /\ UNCHANGED <<config, idToken, uid, resolution, input>>

GetCollectionResponse(call, response) ==
    /\ CrudResponse(call, "getCollection", response, "Failed to get collection",
                    "collectionName", "get_collection", TRUE)

GetDocument(documentPath) ==
    /\ CrudRequest("getDocument", documentPath, FALSE, "GET", <<>>)

\* Mutant: the error record copied from getCollection with its action.
GetDocumentResponseCopiedAction(call, response) ==
    /\ CrudResponse(call, "getDocument", response, "Failed to get document",
                    "documentPath", "get_collection", TRUE)

GetDocumentResponse(call, response) ==
    /\ CrudResponse(call, "getDocument", response, "Failed to get document",
                    "documentPath", "get_document", TRUE)

CreateDocument(collectionName, data) ==
    /\ CrudRequest("createDocument", collectionName, TRUE, "POST",
                   <<[data |-> data, text |-> JSONstringify(data)]>>)

CreateDocumentResponse(call, response) ==
    /\ CrudResponse(call, "createDocument", response, "Failed to create document",
                    "collectionName", "create_document", TRUE)

UpdateDocument(documentPath, data) ==
    /\ CrudRequest("updateDocument", documentPath, FALSE, "PATCH",
                   <<[data |-> data, text |-> JSONstringify(data)]>>)

UpdateDocumentResponse(call, response) ==
    /\ CrudResponse(call, "updateDocument", response, "Failed to update document",
                    "documentPath", "update_document", TRUE)

DeleteDocument(documentPath) ==
    /\ CrudRequest("deleteDocument", documentPath, FALSE, "DELETE", <<>>)

\* Mutant: the status of the answer ignored, any answer taken as success.
DeleteDocumentResponseIgnoringStatus(call, response) ==
    /\ call \in InFlight
    /\ call.op = "deleteDocument"
    /\ calls' = calls (-) SetToBag({call})
    /\ last' =
         IF response.settled = "rejected"
         THEN Settled(call.op, call.arg,
                      Rejected(Error(response.reason, NoData)),
                      <<call.request>>, <<response>>, <<>>)
         ELSE Settled(call.op, call.arg, Resolved(Void),
                      <<call.request>>, <<response>>, <<>>)
    /\ UNCHANGED <<config, idToken, uid, resolution, input>>

DeleteDocumentResponse(call, response) ==
    /\ CrudResponse(call, "deleteDocument", response, "Failed to delete document",
                    "documentPath", "delete_document", FALSE)

\* ------------------------------------------------------------ specification
\* The state after `new FirebaseRestApi(config, idToken, fetchImpl, logger)`.
Constructed ==
    /\ config \in Configs
    /\ idToken \in TokenArgs
    /\ uid = ""
    /\ calls = EmptyBag
    /\ last = Idle
    /\ resolution = <<>>

Init == Constructed /\ input = Undefined

\* How the transport may settle a call: with a response, or by rejecting.
VerifyAnswers == VerifyResponses \cup {NetworkFailure}
CrudAnswers == CrudResponses \cup {NetworkFailure}

Next ==
    \/ GetUid
    \/ ValidateIdToken
    \/ \E token \in Tokens : VerifyAndSetIdToken(token)
    \/ \E c \in InFlight, r \in VerifyAnswers : VerifyResponse(c, r)
    \/ \E a \in Args : GetCollection(a)
    \/ \E a \in Args : GetDocument(a)
    \/ \E a \in Args, d \in DataSet : CreateDocument(a, d)
    \/ \E a \in Args, d \in DataSet : UpdateDocument(a, d)
    \/ \E a \in Args : DeleteDocument(a)
    \/ \E c \in InFlight, r \in CollectionResponses \cup {NetworkFailure} :
          GetCollectionResponse(c, r)
    \/ \E c \in InFlight, r \in CrudAnswers : GetDocumentResponse(c, r)
    \/ \E c \in InFlight, r \in CrudAnswers : CreateDocumentResponse(c, r)
    \/ \E c \in InFlight, r \in CrudAnswers : UpdateDocumentResponse(c, r)
    \/ \E c \in InFlight, r \in CrudAnswers : DeleteDocumentResponse(c, r)

Spec == Init /\ [][Next]_vars

\* -------------------------------------- the validators on their own
\* The values the validators are tried on: every string of at most MaxLen
\* characters, the paths of at most MaxSegments segments drawn from Segments,
\* and values that are no strings.
Segments == {<<>>, <<"a">>, <<"b">>, <<".">>, <<SP>>}

SegmentedPaths ==
    UNION { {Join(p, "/") : p \in [1..k -> Segments]} : k \in 1..MaxSegments }

\* Names and paths that start like a URL: 'http:a', 'https:a', 'a:b',
\* 'http:a/b' and 'https:/a'.
SchemeInputs ==
    { <<"h", "t", "t", "p", ":", "a">>,
      <<"h", "t", "t", "p", "s", ":", "a">>,
      <<"a", ":", "b">>,
      <<"h", "t", "t", "p", ":", "a", "/", "b">>,
      <<"h", "t", "t", "p", "s", ":", "/", "a">> }

ValidatorInputs ==
    {Str(s) : s \in StringsUpTo(MaxLen) \cup SegmentedPaths \cup SchemeInputs}
    \cup {Null, Undefined, Obj}

Applied(op, isCollection, result) ==
    [op |-> op, arg |-> input, isCollection |-> isCollection, result |-> result]

ApplyValidateCollectionName ==
    /\ last' = Applied("validateCollectionName", TRUE,
                       validateCollectionName(input))
    /\ UNCHANGED <<config, idToken, uid, calls, resolution, input>>

ApplyValidateDocumentPath ==
    /\ last' = Applied("validateDocumentPath", FALSE,
                       validateDocumentPath(input))
    /\ UNCHANGED <<config, idToken, uid, calls, resolution, input>>

ApplyBuildFirestoreUrl(isCollection) ==
    /\ last' = Applied("buildFirestoreUrl", isCollection,
                       buildFirestoreUrl(input, isCollection))
    /\ UNCHANGED <<config, idToken, uid, calls, resolution, input>>

InitV == Constructed /\ idToken = <<>> /\ input \in ValidatorInputs

NextV ==
    \/ ApplyValidateCollectionName
    \/ ApplyValidateDocumentPath
    \/ \E isCollection \in BOOLEAN : ApplyBuildFirestoreUrl(isCollection)

\* The validators and the URL builder applied to one input.
SpecV == InitV /\ [][NextV]_vars

\* ------------------------------------ the constructor and the factory
ErrConfigRequired ==
    "Firebase configuration is required. Please ensure FIREBASE_CONFIG and FIREBASE_PROJECT_ID environment variables are set."
ErrConfigIncomplete ==
    "Firebase configuration is incomplete. Both apiKey and projectId are required."
ErrEnvConfigMissing ==
    "FIREBASE_CONFIG environment variable is not set. Please ensure it is configured for Firebase functionality."
ErrEnvProjectIdMissing ==
    "FIREBASE_PROJECT_ID environment variable is not set. Please ensure it is configured for Firebase functionality."
ErrEnvConfigInvalidJson ==
    "FIREBASE_CONFIG environment variable contains invalid JSON. Please ensure it is properly formatted."
ErrEnvConfigNoApiKey == "FIREBASE_CONFIG is missing required apiKey property."

\* No instance has been constructed.
NoInstance == <<>>

\* The instance a constructor call or a factory call hands to its caller.
Instance == "FirebaseRestApi"

\* !object.key: the property is absent or the empty string.
NoProperty(object, key) ==
    key \notin DOMAIN object.properties \/ object.properties[key] = <<>>

\* The config argument of the constructor: null, undefined, objects that lack
\* a property or hold an empty one, and a complete one.
ConfigArgs ==
    { Null, Undefined, EmptyObject,
      Object([apiKey |-> <<"a", "&">>]),
      Object([projectId |-> <<"b", "#">>]),
      Object([apiKey |-> <<>>, projectId |-> <<"b", "#">>]),
      Object([apiKey |-> <<"a", "&">>, projectId |-> <<>>]),
      Object([apiKey |-> <<"a", "&">>, projectId |-> <<"b", "#">>]) }

\* Mutant: only the apiKey of the configuration checked.
constructorApiKeyOnly(cfg, token) ==
    IF cfg.type \in {"null", "undefined"} THEN Throw(ErrConfigRequired)
    ELSE IF NoProperty(cfg, "apiKey") THEN Throw(ErrConfigIncomplete)
    ELSE Return([config |-> cfg.properties, idToken |-> token, uid |-> ""])

\* new FirebaseRestApi(config, idToken, fetchImpl, logger): the fields of the
\* new instance, or the error thrown.
constructor(cfg, token) ==
    IF cfg.type \in {"null", "undefined"} THEN Throw(ErrConfigRequired)
    ELSE IF NoProperty(cfg, "apiKey") \/ NoProperty(cfg, "projectId")
    THEN Throw(ErrConfigIncomplete)
    ELSE Return([config |-> cfg.properties, idToken |-> token, uid |-> ""])

\* The texts FIREBASE_CONFIG is tried with.
JsonWithApiKey == "{\"apiKey\":\"a&\"}"
JsonEmptyApiKey == "{\"apiKey\":\"\"}"
JsonOtherKey == "{\"someOtherKey\":\"value\"}"
NotJson == "invalid-json"

\* JSON.parse on the texts above; not one of them: a SyntaxError.
JSONparse(text) ==
    CASE text = JsonWithApiKey -> Return(Object([apiKey |-> <<"a", "&">>]))
      [] text = JsonEmptyApiKey -> Return(Object([apiKey |-> <<>>]))
      [] text = JsonOtherKey -> Return(Object([someOtherKey |-> <<"v">>]))
      [] OTHER -> Throw("SyntaxError")

\* serverEnv: each variable is <<>> when undefined, else <<its value>>.
ServerEnvs ==
    [FIREBASE_CONFIG :
        {<<>>, <<"">>, <<NotJson>>, <<JsonOtherKey>>, <<JsonEmptyApiKey>>,
         <<JsonWithApiKey>>},
     FIREBASE_PROJECT_ID : {<<>>, << <<>> >>, << <<"b", "#">> >>}]

\* Mutant: FIREBASE_PROJECT_ID checked before FIREBASE_CONFIG.
FactoryConfigProjectIdFirst(serverEnv) ==
    IF serverEnv.FIREBASE_PROJECT_ID \in {<<>>, << <<>> >>}
    THEN Throw(ErrEnvProjectIdMissing)
    ELSE IF serverEnv.FIREBASE_CONFIG \in {<<>>, <<"">>}
    THEN Throw(ErrEnvConfigMissing)
    ELSE LET firebaseConfig == JSONparse(serverEnv.FIREBASE_CONFIG[1])
         IN  IF ~firebaseConfig.ok THEN Throw(ErrEnvConfigInvalidJson)
             ELSE IF NoProperty(firebaseConfig.value, "apiKey")
             THEN Throw(ErrEnvConfigNoApiKey)
             ELSE Return(Object(
                     [apiKey |-> firebaseConfig.value.properties.apiKey,
                      projectId |-> serverEnv.FIREBASE_PROJECT_ID[1]]))

\* createFirebaseRestApi up to `new FirebaseRestApi`: the configuration object
\* it passes to the constructor, or the error thrown.
FactoryConfig(serverEnv) ==
    IF serverEnv.FIREBASE_CONFIG \in {<<>>, <<"">>}
    THEN Throw(ErrEnvConfigMissing)
    ELSE IF serverEnv.FIREBASE_PROJECT_ID \in {<<>>, << <<>> >>}
    THEN Throw(ErrEnvProjectIdMissing)
    ELSE LET firebaseConfig == JSONparse(serverEnv.FIREBASE_CONFIG[1])
         IN  IF ~firebaseConfig.ok THEN Throw(ErrEnvConfigInvalidJson)
             ELSE IF NoProperty(firebaseConfig.value, "apiKey")
             THEN Throw(ErrEnvConfigNoApiKey)
             ELSE Return(Object(
                     [apiKey |-> firebaseConfig.value.properties.apiKey,
                      projectId |-> serverEnv.FIREBASE_PROJECT_ID[1]]))

\* A call of the constructor or of the factory about to be made: `input` holds
\* its arguments and how far it has got.
ConstructorCalls ==
    [op : {"new"}, config : ConfigArgs, idToken : TokenArgs, pc : {"start"}]
FactoryCalls ==
    [op : {"createFirebaseRestApi"}, serverEnv : ServerEnvs,
     idToken : TokenArgs, pc : {"start"}]

\* if (idToken)
TokenGiven(token) == token # <<>> /\ token # <<"">>

\* `new FirebaseRestApi(config, idToken)` called directly.
NewFirebaseRestApi ==
    /\ input.op = "new"
    /\ input.pc = "start"
    /\ LET made == constructor(input.config, input.idToken)
       IN  IF made.ok
           THEN /\ config' = made.value.config
                /\ idToken' = made.value.idToken
                /\ uid' = made.value.uid
                /\ last' = Settled("new", Void, Resolved(Instance),
                                   <<>>, <<>>, <<>>)
                /\ input' = [input EXCEPT !.pc = "returned"]
           ELSE /\ last' = Settled("new", Void,
                                   Rejected(Error(made.error, NoData)),
                                   <<>>, <<>>, <<>>)
                /\ input' = [input EXCEPT !.pc = "failed"]
                /\ UNCHANGED <<config, idToken, uid>>
    /\ UNCHANGED <<calls, resolution>>

\* createFirebaseRestApi up to its await: the environment is checked, the
\* instance constructed and, with a token, verifyAndSetIdToken called on it.
CreateFirebaseRestApi ==
    /\ input.op = "createFirebaseRestApi"
    /\ input.pc = "start"
    /\ LET cfg == FactoryConfig(input.serverEnv)
           made == IF cfg.ok THEN constructor(cfg.value, input.idToken) ELSE cfg
       IN  IF ~made.ok
           THEN /\ last' = Settled("createFirebaseRestApi", Void,
                                   Rejected(Error(made.error, NoData)),
                                   <<>>, <<>>, <<>>)
                /\ input' = [input EXCEPT !.pc = "failed"]
                /\ UNCHANGED <<config, idToken, uid, calls>>
           ELSE /\ config' = made.value.config
                /\ idToken' = made.value.idToken
                /\ uid' = made.value.uid
                /\ IF TokenGiven(input.idToken)
                   THEN /\ calls' = SetToBag({
                              Awaiting("verifyAndSetIdToken", input.idToken[1],
                                       buildAuthUrl(<<"getAccountInfo">>)',
                                       [method |-> "POST",
                                        headers |->
                                           ("Content-Type" :> "application/json"),
                                        body |-> JSONstringify(
                                           [idToken |-> input.idToken[1]])])})
                        /\ input' = [input EXCEPT !.pc = "awaiting"]
                        /\ UNCHANGED last
                   ELSE /\ last' = Settled("createFirebaseRestApi", Void,
                                           Resolved(Instance), <<>>, <<>>, <<>>)
                        /\ input' = [input EXCEPT !.pc = "returned"]
                        /\ UNCHANGED calls
    /\ UNCHANGED resolution

\* Mutant: the instance returned whatever became of the verification.
CreateFirebaseRestApiReturnUnverified ==
    /\ input.op = "createFirebaseRestApi"
    /\ input.pc = "awaiting"
    /\ calls = EmptyBag
    /\ last.op = "verifyAndSetIdToken"
    /\ last' = Settled("createFirebaseRestApi", Void, Resolved(Instance),
                       last.request, last.response, last.logged)
    /\ input' = [input EXCEPT !.pc = "returned"]
    /\ UNCHANGED <<config, idToken, uid, calls, resolution>>

\* createFirebaseRestApi after `await instance.verifyAndSetIdToken(idToken)`
\* has settled: the rejection propagates, or the instance is returned.
CreateFirebaseRestApiReturn ==
    /\ input.op = "createFirebaseRestApi"
    /\ input.pc = "awaiting"
    /\ calls = EmptyBag
    /\ last.op = "verifyAndSetIdToken"
    /\ IF last.outcome.kind = "resolved"
       THEN /\ last' = Settled("createFirebaseRestApi", Void, Resolved(Instance),
                               last.request, last.response, last.logged)
            /\ input' = [input EXCEPT !.pc = "returned"]
       ELSE /\ last' = Settled("createFirebaseRestApi", Void, last.outcome,
                               last.request, last.response, last.logged)
            /\ input' = [input EXCEPT !.pc = "failed"]
    /\ UNCHANGED <<config, idToken, uid, calls, resolution>>

\* The caller holds the instance the call returned.
ClientReturned == input.pc = "returned"

InitF ==
    /\ config = NoInstance
    /\ idToken = <<>>
    /\ uid = ""
    /\ calls = EmptyBag
    /\ last = Idle
    /\ resolution = <<>>
    /\ input \in ConstructorCalls \cup FactoryCalls

NextF ==
    \/ NewFirebaseRestApi
    \/ CreateFirebaseRestApi
    \/ \E c \in InFlight, r \in VerifyAnswers : VerifyResponse(c, r)
    \/ CreateFirebaseRestApiReturn
    \/ ClientReturned /\ GetUid
    \/ ClientReturned /\ ValidateIdToken

\* The constructor and the factory called once, and the instance they return
\* then used.
SpecF == InitF /\ [][NextF]_vars

\* ------------------------------------------------------------ Value Codec
\* The integers that occur in plain data and in responses.
Numbers == {0, 1, 2023, -42}

\* The numbers that are no small integer: one with a fractional part, and the
\* largest finite number, which has none and whose text takes exponent form.
Floats ==
    { [text |-> "3.14159", isInteger |-> FALSE],
      [text |-> "1.7976931348623157e+308", isInteger |-> TRUE] }

\* More native values: a number of Floats, undefined, a Date (its UTC fields)
\* and the values of unsupported types.
NFloat(f) == [t |-> "float", float |-> f]
NUndefined == [t |-> "undefined"]
NDate(fields) == [t |-> "date", date |-> fields]
NSymbol == [t |-> "symbol", description |-> "test"]
NFunction == [t |-> "function", code |-> "() => 'test'"]
NRegExp == [t |-> "regexp", source |-> "test", flags |-> "g"]

\* typeof value, with a regular expression reported as a function (as old
\* engines did).
TypeOfRegExpCallable(value) ==
    CASE value.t \in {"number", "float"} -> "number"
      [] value.t \in {"null", "array", "object", "date"} -> "object"
      [] value.t = "regexp" -> "function"
      [] OTHER -> value.t

\* typeof value
TypeOf(value) ==
    CASE value.t \in {"number", "float"} -> "number"
      [] value.t \in {"null", "array", "object", "date", "regexp"} -> "object"
      [] OTHER -> value.t

\* Number.isInteger(value)
NumberIsInteger(value) == value.t = "number" \/ value.float.isInteger

\* The decimal text of an integer, and the integer a decimal text stands for.
DecimalString(n) == ToString(n)

\* A parse that reads the digits and drops the sign.
ParseIntegerDigitsOnly(text) ==
    LET n == CHOOSE k \in Numbers : DecimalString(k) = text
    IN  IF n < 0 THEN -n ELSE n

ParseInteger(text) == CHOOSE n \in Numbers : DecimalString(n) = text

\* n in decimal, padded with zeros to the width.
RECURSIVE PadStart(_, _)
PadStart(n, width) ==
    IF width = 0 THEN <<>>
    ELSE PadStart(n \div 10, width - 1) \o <<ToString(n % 10)>>

\* The time of day without the milliseconds.
toISOStringSeconds(date) ==
    PadStart(date.year, 4) \o <<"-">> \o PadStart(date.month, 2) \o <<"-">>
    \o PadStart(date.day, 2) \o <<"T">> \o PadStart(date.hours, 2) \o <<":">>
    \o PadStart(date.minutes, 2) \o <<":">> \o PadStart(date.seconds, 2)
    \o <<"Z">>

\* Date.prototype.toISOString: YYYY-MM-DDTHH:mm:ss.sssZ
toISOString(date) ==
    PadStart(date.year, 4) \o <<"-">> \o PadStart(date.month, 2) \o <<"-">>
    \o PadStart(date.day, 2) \o <<"T">> \o PadStart(date.hours, 2) \o <<":">>
    \o PadStart(date.minutes, 2) \o <<":">> \o PadStart(date.seconds, 2)
    \o <<".">> \o PadStart(date.ms, 3) \o <<"Z">>

\* Encode: a native value to its typed wrapper. The entries of an object are
\* its own enumerable properties; a regular expression has none.
RECURSIVE convertToFirestoreValue(_)
convertToFirestoreValue(value) ==
    CASE value.t \in {"null", "undefined"} -> [nullValue |-> "null"]
      [] TypeOf(value) = "boolean" -> [booleanValue |-> value.boolean]
      [] TypeOf(value) = "number" ->
           IF NumberIsInteger(value)
           THEN [integerValue |-> IF value.t = "number"
                                  THEN DecimalString(value.number)
                                  ELSE value.float.text]
           ELSE [doubleValue |-> value.float]
      [] TypeOf(value) = "string" -> [stringValue |-> value.string]
      [] value.t = "date" -> [timestampValue |-> toISOString(value.date)]
      [] value.t = "array" ->
           [arrayValue |->
              [values |-> [i \in DOMAIN value.values |->
                              convertToFirestoreValue(value.values[i])]]]
      [] TypeOf(value) = "object" ->
           LET entries == IF value.t = "object" THEN value.properties
                          ELSE [k \in {} |-> k]
           IN  [mapValue |->
                  [fields |-> [k \in DOMAIN entries |->
                                  convertToFirestoreValue(entries[k])]]]
      [] OTHER -> [stringValue |-> "unsupported_type"]

\* The top-level encode: the field map wrapped as {fields: {...}}.
convertToFirestoreDocument(data) ==
    [fields |-> [k \in DOMAIN data |-> convertToFirestoreValue(data[k])]]

\* The data already looks like the wire form {fields: {...}}.
IsFirestoreFormat(data) == "fields" \in DOMAIN data

\* Decode: a typed wrapper to its native value (a timestamp is returned as
\* its ISO text).
RECURSIVE convertFromFirestoreValue(_)
convertFromFirestoreValue(wire) ==
    CASE "stringValue" \in DOMAIN wire -> NString(wire.stringValue)
      [] "integerValue" \in DOMAIN wire ->
           NNumber(ParseInteger(wire.integerValue))
      [] "doubleValue" \in DOMAIN wire -> NFloat(wire.doubleValue)
      [] "booleanValue" \in DOMAIN wire -> NBoolean(wire.booleanValue)
      [] "timestampValue" \in DOMAIN wire -> NString(wire.timestampValue)
      [] "arrayValue" \in DOMAIN wire ->
           NArray([i \in DOMAIN wire.arrayValue.values |->
                      convertFromFirestoreValue(wire.arrayValue.values[i])])
      [] "mapValue" \in DOMAIN wire ->
           NObject([k \in DOMAIN wire.mapValue.fields |->
                       convertFromFirestoreValue(wire.mapValue.fields[k])])
      [] OTHER -> NNull

\* The id of a document: the last '/'-separated segment of its resource name.
DocumentId(name) == LET parts == Split(name, "/") IN parts[Len(parts)]

\* The decoded document: the native value of every field, and the id.
convertFromFirestoreDocument(doc) ==
    LET fields == IF "fields" \in DOMAIN doc THEN doc.fields
                  ELSE [k \in {} |-> k]
    IN  [k \in DOMAIN fields \cup {"id"} |->
            IF k = "id" THEN NString(DocumentId(doc.name))
            ELSE convertFromFirestoreValue(fields[k])]

\* ------------------------------------------- the Value Codec on its own
\* The native values the codec is tried on: scalars of every type, and (in
\* NativeDocuments) lists and maps of them, nested twice.
Scalars ==
    {NString(""), NString("T"), NNull, NUndefined, NSymbol, NFunction, NRegExp}
    \cup {NNumber(n) : n \in Numbers}
    \cup {NFloat(f) : f \in Floats}
    \cup {NBoolean(b) : b \in BOOLEAN}
    \cup {NDate([year |-> 2023, month |-> 12, day |-> 1, hours |-> 10,
                 minutes |-> 30, seconds |-> 0, ms |-> 0]),
          NDate([year |-> 1999, month |-> 1, day |-> 2, hours |-> 3,
                 minutes |-> 4, seconds |-> 5, ms |-> 6])}

Containers(values) ==
    {NArray(<<>>), NObject([k \in {} |-> k])}
    \cup {NArray(<<v>>) : v \in values}
    \cup {NObject([d |-> v]) : v \in values}

\* The documents handed to the encoder: no field, one field of each value, and
\* a document of three fields.
NativeDocuments ==
    {[k \in {} |-> k]}
    \cup {[a |-> v] :
            v \in Scalars
                  \cup Containers(Scalars)
                  \cup Containers(Containers({NString("x"), NNumber(1), NNull}))
                  \cup {NArray(<<NBoolean(TRUE), NNull>>)}
                  \cup {NArray(<<NFloat(f), NNumber(1)>>) : f \in Floats}}
    \cup {[a |-> NNumber(1), b |-> NArray(<<NBoolean(TRUE), NNull>>),
           c |-> NObject([d |-> NString("x")])]}

\* The wire value has a decoding the codec fixes: every integerValue in it is
\* the decimal text of an integer.
RECURSIVE Decodable(_)
Decodable(wire) ==
    CASE "integerValue" \in DOMAIN wire ->
           \E n \in Numbers : DecimalString(n) = wire.integerValue
      [] "arrayValue" \in DOMAIN wire ->
           \A i \in DOMAIN wire.arrayValue.values :
               Decodable(wire.arrayValue.values[i])
      [] "mapValue" \in DOMAIN wire ->
           \A k \in DOMAIN wire.mapValue.fields :
               Decodable(wire.mapValue.fields[k])
      [] OTHER -> TRUE

\* convertToFirestoreDocument(input)
ConvertToFirestoreDocument ==
    /\ last = Idle
    /\ last' = [op |-> "convertToFirestoreDocument", arg |-> input,
                result |-> convertToFirestoreDocument(input)]
    /\ UNCHANGED <<config, idToken, uid, calls, resolution, input>>

\* The encoded document, stored under a resource name and read back, is
\* decoded.
ConvertFromFirestoreDocument ==
    /\ last # Idle
    /\ last.op = "convertToFirestoreDocument"
    /\ \A k \in DOMAIN last.result.fields : Decodable(last.result.fields[k])
    /\ LET stored == [name |-> <<"projects", "/", "b", "/", "databases", "/",
                                 "(default)", "/", "documents", "/", "a", "/",
                                 "b1">>,
                      fields |-> last.result.fields]
       IN  last' = [op |-> "convertFromFirestoreDocument", arg |-> stored,
                    result |-> convertFromFirestoreDocument(stored)]
    /\ UNCHANGED <<config, idToken, uid, calls, resolution, input>>

InitC == Constructed /\ idToken = <<>> /\ input \in NativeDocuments

NextC ==
    \/ ConvertToFirestoreDocument
    \/ ConvertFromFirestoreDocument

\* The encoder and the decoder applied to one native document.
SpecC == InitC /\ [][NextC]_vars

\* ------------------------------------------------ environment variables
\* JSON.stringify({ apiKey: <source> })
JsonOfSource(source) == "{\"apiKey\":\"" \o source \o "\"}"

\* JSON.parse of the texts an environment holds.
EnvJSONparse(text) ==
    IF \E source \in {"cloudflare", "env", "process"} : text = JsonOfSource(source)
    THEN Return(Object([apiKey |->
            CHOOSE source \in {"cloudflare", "env", "process"} :
                text = JsonOfSource(source)]))
    ELSE Throw("SyntaxError")

\* What one source may hold: each variable is <<>> when it is not there, else
\* <<its value>>, which may be the empty string or, in context.env, a text
\* that is no JSON.
SourceValues(source) ==
    [FIREBASE_CONFIG : {<<>>, <<"">>, <<JsonOfSource(source)>>}
                       \cup (IF source = "env" THEN {<<"wrong-config">>} ELSE {}),
     FIREBASE_PROJECT_ID : {<<>>, <<source \o "-project">>},
     APP_NAME : {<<>>, <<"">>, <<source \o "-app">>}]

\* source?.[key]
Lookup(env, source, key) ==
    IF env[source] = <<>> THEN <<>> ELSE env[source][1][key]

\* !value for a string or undefined
Unset(value) == value = <<>> \/ value = <<"">>

\* Mutant: context.env read before context.cloudflare.env.
getEnvVarWranglerFirst(env, key) ==
    IF ~Unset(Lookup(env, "env", key)) THEN Lookup(env, "env", key)
    ELSE IF ~Unset(Lookup(env, "cloudflare", key))
    THEN Lookup(env, "cloudflare", key)
    ELSE Lookup(env, "process", key)

\* getEnvVar: a || b || c
getEnvVar(env, key) ==
    IF ~Unset(Lookup(env, "cloudflare", key))
    THEN Lookup(env, "cloudflare", key)
    ELSE IF ~Unset(Lookup(env, "env", key)) THEN Lookup(env, "env", key)
    ELSE Lookup(env, "process", key)

getClientEnv(env) ==
    LET firebaseConfig == getEnvVar(env, "FIREBASE_CONFIG")
        appName == getEnvVar(env, "APP_NAME")
    IN  IF Unset(firebaseConfig)
        THEN Throw("FIREBASE_CONFIG environment variable is not set. Please ensure it is configured in your environment.")
        ELSE IF ~EnvJSONparse(firebaseConfig[1]).ok
        THEN Throw("FIREBASE_CONFIG environment variable contains invalid JSON. Please ensure it is properly formatted.")
        ELSE Return([FIREBASE_CONFIG |-> EnvJSONparse(firebaseConfig[1]).value,
                     APP_NAME |-> IF Unset(appName) THEN "remix-cloudflare-app"
                                  ELSE appName[1]])

getServerEnv(env) ==
    LET requiredVars == <<"FIREBASE_CONFIG", "FIREBASE_PROJECT_ID">>
        missingVars == SelectSeq(requiredVars,
                                 LAMBDA key : Unset(getEnvVar(env, key)))
    IN  IF Len(missingVars) > 0
        THEN Throw([message |-> "Missing required environment variables: ",
                    missingVars |-> missingVars,
                    hint |-> ". Please ensure they are configured in your environment."])
        ELSE Return([FIREBASE_CONFIG |-> getEnvVar(env, "FIREBASE_CONFIG")[1],
                     FIREBASE_PROJECT_ID |->
                        getEnvVar(env, "FIREBASE_PROJECT_ID")[1]])

\* getClientEnv(context)
GetClientEnv ==
    /\ last' = [op |-> "getClientEnv", result |-> getClientEnv(input)]
    /\ UNCHANGED <<config, idToken, uid, calls, resolution, input>>

\* getServerEnv(context)
GetServerEnv ==
    /\ last' = [op |-> "getServerEnv", result |-> getServerEnv(input)]
    /\ UNCHANGED <<config, idToken, uid, calls, resolution, input>>

\* A source that does not exist at all (no context.cloudflare, no process) is
\* <<>>, else <<what it holds>>.
InitE ==
    /\ Constructed
    /\ idToken = <<>>
    /\ input \in
          [cloudflare : {<<>>} \cup {<<held>> : held \in SourceValues("cloudflare")},
           env : {<<>>} \cup {<<held>> : held \in SourceValues("env")},
           process : {<<>>} \cup {<<held>> : held \in SourceValues("process")}]

NextE ==
    \/ GetClientEnv
    \/ GetServerEnv

\* The two readers of the environment applied to one environment.
SpecE == InitE /\ [][NextE]_vars

\* --------------------------------------- two verifications racing
\* The caller issues verifyAndSetIdToken('tok1'), then, while it is awaited,
\* verifyAndSetIdToken('tok2'), and notes in input each call as it settles:
\* its token, how it settled and the first user of its response.
IssueFirst ==
    /\ input = <<>>
    /\ last = Idle
    /\ calls = EmptyBag
    /\ VerifyAndSetIdToken("tok1")

IssueSecond ==
    /\ input = <<>>
    /\ last = Idle
    /\ BagCardinality(calls) = 1
    /\ VerifyAndSetIdToken("tok2")

\* One of the two calls is answered once both are in flight, the other after
\* the first answer was noted.
RaceResponse(call, response) ==
    /\ BagCardinality(calls) = 2 - Len(input)
    /\ VerifyResponse(call, response)

NoteSettled ==
    /\ last # Idle
    /\ BagCardinality(calls) = 1 - Len(input)
    /\ input' = Append(input,
                        [token |-> last.arg,
                         outcome |-> last.outcome.kind,
                         user |-> IF last.outcome.kind = "resolved"
                                  THEN FirstLocalId(last.response[1].body)
                                  ELSE ""])
    /\ UNCHANGED <<config, idToken, uid, calls, last, resolution>>

InitR == Constructed /\ input = <<>>

NextR ==
    \/ IssueFirst
    \/ IssueSecond
    \/ \E c \in InFlight, r \in VerifyAnswers : RaceResponse(c, r)
    \/ NoteSettled

\* Two verifyAndSetIdToken calls in flight at the same time on one instance.
SpecR == InitR /\ [][NextR]_vars

\* ===================================================================== claims
CollectionOps == {"getCollection", "createDocument"}

\* The validation a CRUD operation applies to its argument passes.
ArgPasses(op, arg) ==
    IF op \in CollectionOps THEN validateCollectionName(arg).ok
    ELSE validateDocumentPath(arg).ok

\* The instance was constructed with a non-empty token.
HoldsToken == idToken # <<>> /\ idToken[1] # ""

C2_HeadersRight(request) ==
    LET headers == request.init.headers IN
    /\ "Content-Type" \in DOMAIN headers
    /\ headers["Content-Type"] = "application/json"
    /\ ("Authorization" \in DOMAIN headers) <=> HoldsToken
    /\ HoldsToken => headers["Authorization"] = "Bearer " \o idToken[1]
    /\ DOMAIN headers \subseteq {"Content-Type", "Authorization"}

\* C2: every request of a CRUD operation, awaited or answered, carries
\* Content-Type: application/json, and Authorization: Bearer <token> exactly
\* when the instance was constructed with a non-empty token.
C2_CrudHeaders ==
    /\ \A c \in InFlight : c.op \in CrudOps => C2_HeadersRight(c.request)
    /\ (last.op \in CrudOps /\ last.request # <<>>) =>
          C2_HeadersRight(last.request[1])

\* A CRUD request awaited on an instance that holds a token.
C2_Witness ==
    /\ HoldsToken
    /\ \E c \in InFlight :
          /\ c.op \in CrudOps
          /\ "Authorization" \in DOMAIN c.request.init.headers

\* C3: a CRUD operation whose collection name or document path fails
\* validation rejects without having called the transport, and no call with
\* such an argument is ever awaiting the transport.
C3_ValidationBeforeNetwork ==
    /\ (last.op \in CrudOps /\ ~ArgPasses(last.op, last.arg)) =>
          /\ last.outcome.kind = "rejected"
          /\ last.fetches = 0
          /\ last.response = <<>>
    /\ \A c \in InFlight : c.op \in CrudOps => ArgPasses(c.op, c.arg)

\* A CRUD operation rejected by validation.
C3_Witness ==
    /\ last.op \in CrudOps
    /\ ~ArgPasses(last.op, last.arg)
    /\ last.outcome.kind = "rejected"
    /\ last.fetches = 0

\* ------------------------------------------------ properties of a raw string
HasChar(s, c) == \E i \in 1..Len(s) : s[i] = c
HasDotDot(s) == \E i \in 1..(Len(s) - 1) : s[i] = "." /\ s[i + 1] = "."
HasInjectionChar(s) == HasChar(s, "?") \/ HasChar(s, "#") \/ HasChar(s, "&")
\* Empty, or white space only.
Blank(s) == \A i \in 1..Len(s) : s[i] \in {SP, LF}
\* An ASCII control character (0x00-0x1F, 0x7F) at some position.
HasControl(s) == \E i \in 1..Len(s) : s[i] \in {LF, DEL}

\* C4: validateCollectionName accepts only a string that is non-empty after
\* trimming and holds none of "..", "/", "?", "#", "&"; an empty or blank name
\* fails with an empty-input error, a name holding ".." or "/" with the
\* path-traversal error, and a name holding "?", "#" or "&" (and no ".." or
\* "/") with the URL-injection error.
C4_CollectionNameRules ==
    last.op = "validateCollectionName" =>
        LET name == last.arg
            r == last.result
        IN  /\ r.ok =>
                 /\ name.type = "string"
                 /\ ~Blank(name.s)
                 /\ ~HasDotDot(name.s)
                 /\ ~HasChar(name.s, "/")
                 /\ ~HasInjectionChar(name.s)
            /\ (name.type = "string" /\ Blank(name.s)) =>
                 /\ ~r.ok
                 /\ r.error \in {ErrCollectionNotString, ErrCollectionEmpty}
            /\ (name.type = "string"
                  /\ (HasDotDot(name.s) \/ HasChar(name.s, "/"))) =>
                 /\ ~r.ok
                 /\ r.error = ErrCollectionTraversal
            /\ (name.type = "string" /\ HasInjectionChar(name.s)
                  /\ ~HasDotDot(name.s) /\ ~HasChar(name.s, "/")) =>
                 /\ ~r.ok
                 /\ r.error = ErrCollectionInjection

\* A name with '&' rejected with the URL-injection error.
C4_Witness ==
    /\ last.op = "validateCollectionName"
    /\ HasChar(last.arg.s, "&")
    /\ last.result = Throw(ErrCollectionInjection)

\* The '/'-separated segments of a path: an even number, at least two, each
\* with a character that is no white space.
C5_WellShaped(s) ==
    LET parts == Split(s, "/") IN
    /\ Len(parts) >= 2
    /\ Len(parts) % 2 = 0
    /\ \A i \in 1..Len(parts) : ~Blank(parts[i])

\* C5: validateDocumentPath accepts only a path that splits on "/" into an
\* even number, at least two, of non-empty segments; a path of one segment, of
\* an odd number of segments or with an empty segment is rejected; and a path
\* of that shape, such as a/b or a/b/a/b, that passes the traversal, injection
\* and control-character checks is accepted.
C5_DocumentPathShape ==
    last.op = "validateDocumentPath" =>
        LET path == last.arg
            r == last.result
            parts == Split(path.s, "/")
        IN  /\ r.ok =>
                 /\ path.type = "string"
                 /\ Len(parts) >= 2
                 /\ Len(parts) % 2 = 0
                 /\ \A i \in 1..Len(parts) : parts[i] # <<>>
            /\ (path.type = "string"
                  /\ (\/ Len(parts) = 1
                      \/ Len(parts) % 2 = 1
                      \/ \E i \in 1..Len(parts) : parts[i] = <<>>)) => ~r.ok
            /\ (path.type = "string" /\ C5_WellShaped(path.s)
                  /\ ~HasDotDot(path.s) /\ ~HasInjectionChar(path.s)
                  /\ ~HasControl(path.s)) => r.ok

\* A path of four segments accepted.
C5_Witness ==
    /\ last.op = "validateDocumentPath"
    /\ last.result.ok
    /\ Len(Split(last.arg.s, "/")) = 4

\* The control-character error of the validator applied.
C6_ControlError == IF last.isCollection THEN ErrCollectionControl ELSE ErrPathControl

\* The string s breaks none of the rules other than the control-character one.
C6_OtherRulesKept(s) ==
    /\ ~Blank(s)
    /\ ~HasDotDot(s)
    /\ ~HasInjectionChar(s)
    /\ IF last.isCollection THEN ~HasChar(s, "/") ELSE C5_WellShaped(s)

C6_Applied ==
    /\ last.op \in {"validateCollectionName", "validateDocumentPath",
                    "buildFirestoreUrl"}
    /\ last.arg.type = "string"

\* C6 (as claimed): a collection name or document path with an ASCII control
\* character at any position is rejected, so that no URL is built and no
\* request sent for it, and with the control-character error when it breaks no
\* other rule.
C6_AnyControlCharRejected ==
    (C6_Applied /\ HasControl(last.arg.s)) =>
        /\ ~last.result.ok
        /\ C6_OtherRulesKept(last.arg.s) => last.result.error = C6_ControlError

\* C6 (amended): a collection name or document path that still holds an ASCII
\* control character once its leading and trailing white space is trimmed is
\* rejected, so that no URL is built and no request sent for it, and with the
\* control-character error when it breaks no other rule.
C6_ControlCharAfterTrimRejected ==
    (C6_Applied /\ HasControl(Trim(last.arg.s))) =>
        /\ ~last.result.ok
        /\ C6_OtherRulesKept(Trim(last.arg.s)) =>
              last.result.error = C6_ControlError

\* A name with a control character inside rejected with the control-character
\* error by buildFirestoreUrl.
C6_Witness ==
    /\ last.op = "buildFirestoreUrl"
    /\ last.arg.type = "string"
    /\ HasControl(Trim(last.arg.s))
    /\ last.result = Throw(C6_ControlError)

\* The API key as the value of a query parameter.
C7_KeyParameter ==
    <<"key", [i \in 1..Len(config.apiKey) |-> FormEncodeChar(config.apiKey[i])]>>

C7_RequestRight(op, request) ==
    /\ op \in VerifyOps =>
          /\ request.url.origin = "https://www.googleapis.com"
          /\ request.url.query = {C7_KeyParameter}
    /\ op \in CrudOps => request.url.query = {}

\* C7: the URL of a token-verification request has the API key as its one
\* query parameter, key, and the URL of a request of a CRUD operation has no
\* query at all: the API key is in no document URL.
C7_ApiKeyOnlyInAuthUrl ==
    /\ \A c \in InFlight : C7_RequestRight(c.op, c.request)
    /\ (last.op \in CrudOps \cup VerifyOps /\ last.request # <<>>) =>
          C7_RequestRight(last.op, last.request[1])

\* A verification request and a CRUD request awaited together.
C7_Witness ==
    /\ \E c \in InFlight : c.op \in VerifyOps
    /\ \E c \in InFlight : c.op \in CrudOps

C9_ResolvedLocalId == resolution[1].response.body.users[1].localId

C10_Outcome(r) ==
    IF r.settled = "rejected" THEN Rejected(Error(r.reason, NoData))
    ELSE IF ~r.ok THEN Rejected(Error(ErrVerifyFailed, JSONstringify(r.body)))
    ELSE IF "users" \notin DOMAIN r.body \/ r.body.users = <<>>
    THEN Rejected(Error(ErrNoUser, NoData))
    ELSE Resolved(Void)

\* The verification request for a token.
C10_Request(token) ==
    [url |-> [origin |-> "https://www.googleapis.com",
              path |-> <<"/identitytoolkit/v3/relyingparty/", "getAccountInfo">>,
              query |-> {C7_KeyParameter}],
     init |-> [method |-> "POST",
               headers |-> ("Content-Type" :> "application/json"),
               body |-> JSONstringify([idToken |-> token])]]

\* C10: on an instance constructed without a token (absent or empty)
\* validateIdToken resolves without a transport call; on one constructed with
\* a token it sends one verification request, whose body carries that token,
\* and settles as verifyAndSetIdToken settles on the same answer.
C10_ValidateIdToken ==
    /\ ~HoldsToken =>
          /\ \A c \in InFlight : c.op # "validateIdToken"
          /\ last.op = "validateIdToken" =>
                /\ last.outcome = Resolved(Void)
                /\ last.fetches = 0
    /\ HoldsToken =>
          /\ \A c \in InFlight :
                c.op = "validateIdToken" => c.request = C10_Request(idToken[1])
          /\ last.op = "validateIdToken" =>
                /\ last.fetches = 1
                /\ last.request = <<C10_Request(idToken[1])>>
                /\ last.outcome = C10_Outcome(last.response[1])
    /\ last.op = "verifyAndSetIdToken" =>
          /\ last.request = <<C10_Request(last.arg)>>
          /\ last.outcome = C10_Outcome(last.response[1])
    /\ (last.op \in VerifyOps /\ last.outcome = Resolved(Void)
          /\ last.response # <<>>) =>
          /\ uid = last.response[1].body.users[1].localId
          /\ resolution[1].token = last.request[1].init.body.json.idToken

\* validateIdToken resolved after its one verification request.
C10_Witness ==
    /\ HoldsToken
    /\ last.op = "validateIdToken"
    /\ last.fetches = 1
    /\ last.outcome.kind = "resolved"

C12_NoUserAnswer(settled) ==
    /\ settled.op \in VerifyOps
    /\ settled.response # <<>>
    /\ settled.response[1].settled = "fulfilled"
    /\ settled.response[1].ok
    /\ \/ "users" \notin DOMAIN settled.response[1].body
       \/ settled.response[1].body.users = <<>>

\* C12: a verification answered OK with a missing or empty user list rejects
\* with the no-user-found error, writes no error record, and leaves what
\* getUid returns as it was before the answer.
C12_NoUserRejected ==
    [][(BagCardinality(calls') < BagCardinality(calls) /\ C12_NoUserAnswer(last'))
         => /\ last'.outcome =
                  Rejected(Error("No user found for the provided token", NoData))
            /\ last'.logged = <<>>
            /\ getUid' = getUid]_vars

\* A verification answered OK with an empty user list, on an instance whose
\* getUid fails.
C12_Witness ==
    /\ C12_NoUserAnswer(last)
    /\ last.op = "verifyAndSetIdToken"
    /\ "users" \in DOMAIN last.response[1].body
    /\ last.outcome.kind = "rejected"
    /\ ~getUid.ok

\* What each CRUD operation names in its error record and its error.
C13_Action(op) ==
    CASE op = "getCollection" -> "get_collection"
      [] op = "getDocument" -> "get_document"
      [] op = "createDocument" -> "create_document"
      [] op = "updateDocument" -> "update_document"
      [] op = "deleteDocument" -> "delete_document"

C13_Message(op) ==
    CASE op = "getCollection" -> "Failed to get collection"
      [] op = "getDocument" -> "Failed to get document"
      [] op = "createDocument" -> "Failed to create document"
      [] op = "updateDocument" -> "Failed to update document"
      [] op = "deleteDocument" -> "Failed to delete document"

C13_Key(op) ==
    IF op \in {"getCollection", "createDocument"} THEN "collectionName"
    ELSE "documentPath"

C14_TransportFailed ==
    /\ last.op \in CrudOps \cup VerifyOps
    /\ last.response # <<>>
    /\ \/ last.response[1].settled = "rejected"
       \/ ~last.response[1].ok

C15_Failed(settled) ==
    /\ settled.response # <<>>
    /\ \/ settled.response[1].settled = "rejected"
       \/ ~settled.response[1].ok

\* C15: no invocation calls the transport more than once: an invocation that
\* awaits the transport has called it once, the step that takes the
\* transport's answer settles that same invocation with its one request, as a
\* rejection when the call failed, and no step puts a call back in flight.
C15_NoRetry ==
    [][/\ \A c \in BagToSet(calls') : c.fetches = 1
       /\ last'.op \in CrudOps \cup VerifyOps => last'.fetches <= 1
       /\ BagCardinality(calls') = BagCardinality(calls) => calls' = calls
       /\ BagCardinality(calls') < BagCardinality(calls) =>
             \E c \in InFlight :
                /\ calls' = calls (-) SetToBag({c})
                /\ last'.op = c.op
                /\ last'.arg = c.arg
                /\ last'.request = <<c.request>>
                /\ C15_Failed(last') => last'.outcome.kind = "rejected"
       /\ BagCardinality(calls') > BagCardinality(calls) =>
             /\ BagCardinality(calls') = BagCardinality(calls) + 1
             /\ last' = last]_<<calls, last>>

\* getCollection rejected after its one transport call was answered 403.
C15_Witness ==
    /\ last.op = "getCollection"
    /\ last.fetches = 1
    /\ C15_Failed(last)
    /\ last.response[1].settled = "fulfilled"
    /\ last.outcome.kind = "rejected"

\* The factory was called with a configuration it accepts.
C16_ValidEnv ==
    /\ input.op = "createFirebaseRestApi"
    /\ input.serverEnv.FIREBASE_CONFIG = <<JsonWithApiKey>>
    /\ input.serverEnv.FIREBASE_PROJECT_ID \notin {<<>>, << <<>> >>}

C17_FirstError(serverEnv) ==
    IF serverEnv.FIREBASE_CONFIG \in {<<>>, <<"">>}
    THEN <<"FIREBASE_CONFIG environment variable is not set. Please ensure it is configured for Firebase functionality.">>
    ELSE IF serverEnv.FIREBASE_PROJECT_ID \in {<<>>, << <<>> >>}
    THEN <<"FIREBASE_PROJECT_ID environment variable is not set. Please ensure it is configured for Firebase functionality.">>
    ELSE IF serverEnv.FIREBASE_CONFIG = <<NotJson>>
    THEN <<"FIREBASE_CONFIG environment variable contains invalid JSON. Please ensure it is properly formatted.">>
    ELSE IF serverEnv.FIREBASE_CONFIG \in {<<JsonOtherKey>>, <<JsonEmptyApiKey>>}
    THEN <<"FIREBASE_CONFIG is missing required apiKey property.">>
    ELSE <<>>

C18_ConstructorValidates ==
    /\ config # NoInstance =>
          /\ DOMAIN config = {"apiKey", "projectId"}
          /\ config.apiKey # <<>>
          /\ config.projectId # <<>>
    /\ (input.op = "new" /\ input.pc # "start") =>
          /\ input.config.type \in {"null", "undefined"} =>
                /\ last.op = "new" =>
                      last.outcome = Rejected(Error(
                         "Firebase configuration is required. Please ensure FIREBASE_CONFIG and FIREBASE_PROJECT_ID environment variables are set.",
                         NoData))
                /\ config = NoInstance
          /\ (input.config.type = "object"
                /\ \E k \in {"apiKey", "projectId"} :
                      \/ k \notin DOMAIN input.config.properties
                      \/ input.config.properties[k] = <<>>) =>
                /\ last.op = "new" =>
                      last.outcome = Rejected(Error(
                         "Firebase configuration is incomplete. Both apiKey and projectId are required.",
                         NoData))
                /\ config = NoInstance
          /\ (input.config.type = "object"
                /\ \A k \in {"apiKey", "projectId"} :
                      /\ k \in DOMAIN input.config.properties
                      /\ input.config.properties[k] # <<>>) =>
                /\ ClientReturned
                /\ config = input.config.properties
                /\ idToken = input.idToken
          /\ last.op = "new" => last.fetches = 0
          /\ \A c \in InFlight : c.op = "validateIdToken"

\* The constructor accepted a complete configuration with an empty token.
C18_Witness ==
    /\ input.op = "new"
    /\ input.idToken = <<"">>
    /\ ClientReturned
    /\ last.op = "new"
    /\ config # NoInstance

\* The body the claim expects for the caller's data.
C19_ExpectedBody(data) ==
    JSONstringify(IF IsFirestoreFormat(data) THEN data
                  ELSE convertToFirestoreDocument(data))

\* C19 (as claimed): the body of every createDocument and updateDocument
\* request is the caller's data unchanged when it has the wire shape
\* {fields: {...}} and the Value Codec encoding of it otherwise.
C19_BodyEncoded ==
    \A c \in InFlight :
        c.op \in {"createDocument", "updateDocument"} =>
            c.request.init.body = C19_ExpectedBody(c.data)

\* C20 (as claimed): getDocument, createDocument and updateDocument answered
\* OK return the decoded document: the native value of every field of the
\* response and the id, the last segment of the response's resource name.
C20_DecodedDocumentReturned ==
    (last.op \in {"getDocument", "createDocument", "updateDocument"}
       /\ last.response # <<>>
       /\ last.response[1].settled = "fulfilled"
       /\ last.response[1].ok) =>
        /\ last.outcome.kind = "resolved"
        /\ LET decoded == convertFromFirestoreDocument(last.response[1].body)
               value == last.outcome.value
           IN  /\ DOMAIN value = DOMAIN decoded
               /\ \A k \in DOMAIN decoded : value[k] = decoded[k]

\* The list the claim expects for a listing's body: the decoded documents in
\* order, and the empty list when the body has no documents.
C21_ExpectedList(body) ==
    IF "documents" \in DOMAIN body
    THEN [i \in DOMAIN body.documents |->
            convertFromFirestoreDocument(body.documents[i])]
    ELSE <<>>

\* C21 (as claimed): getCollection answered OK resolves to the list of the
\* decoded documents of the response, the empty list when the response has no
\* documents, and never to the response object itself.
C21_CollectionDecoded ==
    (last.op = "getCollection"
       /\ last.response # <<>>
       /\ last.response[1].settled = "fulfilled"
       /\ last.response[1].ok) =>
        /\ last.outcome.kind = "resolved"
        /\ last.outcome.value # last.response[1].body
        /\ last.outcome.value = C21_ExpectedList(last.response[1].body)

\* The claimed wrapper of a native value, stated type by type.
RECURSIVE C22_Wrapper(_, _)
C22_Wrapper(value, wire) ==
    CASE value.t \in {"null", "undefined"} -> wire = [nullValue |-> "null"]
      [] value.t = "boolean" -> wire = [booleanValue |-> value.boolean]
      [] value.t = "number" ->
           wire = [integerValue |-> DecimalString(value.number)]
      [] value.t = "float" ->
           IF value.float.isInteger
           THEN wire = [integerValue |-> value.float.text]
           ELSE wire = [doubleValue |-> value.float]
      [] value.t = "string" -> wire = [stringValue |-> value.string]
      [] value.t = "date" ->
           /\ DOMAIN wire = {"timestampValue"}
           /\ LET iso == wire.timestampValue
              IN  /\ Len(iso) = 24
                  /\ iso[5] = "-" /\ iso[8] = "-" /\ iso[11] = "T"
                  /\ iso[14] = ":" /\ iso[17] = ":" /\ iso[20] = "."
                  /\ iso[24] = "Z"
                  /\ SubSeq(iso, 1, 4) = PadStart(value.date.year, 4)
                  /\ SubSeq(iso, 21, 23) = PadStart(value.date.ms, 3)
      [] value.t = "array" ->
           /\ DOMAIN wire = {"arrayValue"}
           /\ DOMAIN wire.arrayValue = {"values"}
           /\ DOMAIN wire.arrayValue.values = DOMAIN value.values
           /\ \A i \in DOMAIN value.values :
                 C22_Wrapper(value.values[i], wire.arrayValue.values[i])
      [] value.t = "object" ->
           /\ DOMAIN wire = {"mapValue"}
           /\ DOMAIN wire.mapValue = {"fields"}
           /\ DOMAIN wire.mapValue.fields = DOMAIN value.properties
           /\ \A k \in DOMAIN value.properties :
                 C22_Wrapper(value.properties[k], wire.mapValue.fields[k])
      [] OTHER -> TRUE

RECURSIVE C23_Plain(_)
C23_Plain(value) ==
    CASE value.t \in {"string", "number", "boolean", "null"} -> TRUE
      [] value.t = "array" ->
           \A i \in DOMAIN value.values : C23_Plain(value.values[i])
      [] value.t = "object" ->
           \A k \in DOMAIN value.properties : C23_Plain(value.properties[k])
      [] OTHER -> FALSE

C24_Encoded(type) ==
    /\ last # Idle
    /\ last.op = "convertToFirestoreDocument"
    /\ DOMAIN input = {"a"}
    /\ input.a.t = type

DocumentsPath ==
    <<"/v1/projects/">> \o encodeURIComponent(config.projectId)
    \o <<"/databases/(default)/documents/">>

\* v is s without the whitespace at its two ends.
C25_Trimmed(s, v) ==
    /\ v # <<>>
    /\ ~IsWhiteSpace(v[1])
    /\ ~IsWhiteSpace(v[Len(v)])
    /\ \E i \in 0..Len(s) :
          /\ i + Len(v) <= Len(s)
          /\ SubSeq(s, i + 1, i + Len(v)) = v
          /\ \A k \in (1..i) \cup ((i + Len(v) + 1)..Len(s)) : IsWhiteSpace(s[k])

\* The name is made of letters, inner spaces and single dots, and is not '.'.
C25_PlainName(v) ==
    /\ \A k \in 1..Len(v) : v[k] \in Letters \cup {".", SP}
    /\ v # <<".">>

\* C25 (as claimed): the name validateCollectionName returns, and the last
\* path segment of the URL built for it, is exactly the string supplied.
C25_PassedThroughUnchanged ==
    /\ (last.op = "validateCollectionName" /\ last.result.ok) =>
          last.result.value = input.s
    /\ (last.op = "buildFirestoreUrl" /\ last.isCollection /\ last.result.ok) =>
          last.result.value.path = DocumentsPath \o input.s

\* C25 (amended): the name validateCollectionName returns is the string
\* supplied without the whitespace at its two ends, and for a name of letters,
\* inner spaces and single dots other than '.' the last path segment of the
\* URL is that trimmed name with every space written %20.
C25_PassedThroughTrimmed ==
    /\ (last.op = "validateCollectionName" /\ last.result.ok) =>
          C25_Trimmed(input.s, last.result.value)
    /\ (last.op = "buildFirestoreUrl" /\ last.isCollection /\ last.result.ok) =>
          \E v \in {SubSeq(input.s, i, j) : i, j \in 1..Len(input.s)} :
              /\ C25_Trimmed(input.s, v)
              /\ C25_PlainName(v) =>
                    /\ last.result.value.origin
                          = "https://firestore.googleapis.com"
                    /\ last.result.value.path
                          = DocumentsPath
                            \o [k \in 1..Len(v) |->
                                   IF v[k] = SP THEN "%20" ELSE v[k]]

\* The URL has been built for a name given with whitespace around it.
C25_Witness ==
    /\ last.op = "buildFirestoreUrl"
    /\ last.isCollection
    /\ last.result.ok
    /\ input.s = <<SP, "a", LF>>
    /\ last.result.value.path = DocumentsPath \o <<"a">>

\* C27 (as claimed): the URL built for a collection name or document path
\* that passes validation has the origin https://firestore.googleapis.com and
\* a path that starts with the documents path of the configured project.
C27_TargetsDocumentsEndpoint ==
    (last # Idle /\ last.op = "buildFirestoreUrl" /\ last.result.ok) =>
        LET url == last.result.value
        IN  /\ url.origin = "https://firestore.googleapis.com"
            /\ Len(url.path) >= Len(DocumentsPath)
            /\ SubSeq(url.path, 1, Len(DocumentsPath)) = DocumentsPath

\* The three sources in the order of the claim.
C26_Sources == <<"cloudflare", "env", "process">>

\* The positions, in the order of the lookup, of the sources that hold the
\* variable at all, and of those that hold a non-empty value for it.
C26_Having(key) ==
    {i \in 1..3 : Lookup(input, C26_Sources[i], key) # <<>>}
C26_HavingValue(key) ==
    {i \in 1..3 : Lookup(input, C26_Sources[i], key) \notin {<<>>, <<"">>}}

\* The value of the first source among the positions.
C26_First(positions, key) ==
    Lookup(input, C26_Sources[CHOOSE i \in positions :
                                \A j \in positions : i <= j], key)[1]

\* What the reader returned for the variable is what the first of the
\* positions holds.
C26_ReadFrom(positions, key) ==
    positions # {} =>
        IF last.op = "getClientEnv" /\ key = "FIREBASE_CONFIG"
        THEN Return(last.result.value[key])
                = EnvJSONparse(C26_First(positions, key))
        ELSE last.result.value[key] = C26_First(positions, key)

\* C26 (as claimed): getClientEnv and getServerEnv return for each variable
\* the value of the first of context.cloudflare.env, context.env and
\* process.env that has the variable, each variable on its own.
C26_HighestPrioritySourceHavingIt ==
    (last.op \in {"getClientEnv", "getServerEnv"} /\ last.result.ok) =>
        \A key \in DOMAIN last.result.value : C26_ReadFrom(C26_Having(key), key)

\* C26 (amended): getClientEnv and getServerEnv return for each variable the
\* value of the first of context.cloudflare.env, context.env and process.env
\* that holds a non-empty value for it, each variable on its own; a variable
\* set to the empty string counts as not there.
C26_HighestPrioritySourceWithValue ==
    (last.op \in {"getClientEnv", "getServerEnv"} /\ last.result.ok) =>
        \A key \in DOMAIN last.result.value :
            C26_ReadFrom(C26_HavingValue(key), key)

\* getServerEnv has returned one variable read from context.env, although
\* process.env holds it too, and the other read from process.env.
C26_Witness ==
    /\ last.op = "getServerEnv"
    /\ last.result.ok
    /\ C26_HavingValue("FIREBASE_PROJECT_ID") = {2, 3}
    /\ C26_HavingValue("FIREBASE_CONFIG") = {3}
    /\ last.result.value.FIREBASE_PROJECT_ID = "env-project"
    /\ last.result.value.FIREBASE_CONFIG = JsonOfSource("process")

\* C28 (as claimed): whenever getUid succeeds, the user id was resolved by
\* verifying the token the instance holds, the one prepareHeaders sends as
\* Authorization: Bearer with its CRUD requests.
C28_UidBelongsToBearerToken ==
    getUid.ok =>
        /\ resolution # <<>>
        /\ HoldsToken
        /\ resolution[1].token = idToken[1]
        /\ prepareHeaders(TRUE).value["Authorization"]
              = "Bearer " \o resolution[1].token

\* C29: a failing operation leaves the instance state unchanged: the step in
\* which a verifyAndSetIdToken, validateIdToken or CRUD call rejects (after a
\* non-OK response, an empty user list or a transport failure, or before any
\* request) leaves the configuration, the token and the user id as they were,
\* and getUid returns after it what it returned before.
C29_FailureLeavesStateUnchanged ==
    [][(last'.op \in VerifyOps \cup CrudOps
          /\ last'.outcome.kind = "rejected"
          /\ (last' # last \/ calls' # calls)) =>
          /\ config' = config
          /\ idToken' = idToken
          /\ uid' = uid
          /\ getUid' = getUid]_vars

\* A verification has rejected on an instance that holds a token and whose
\* user id was resolved before: the user id is still there.
C29_Witness ==
    /\ last.op = "verifyAndSetIdToken"
    /\ last.outcome.kind = "rejected"
    /\ last.response # <<>>
    /\ last.response[1].settled = "fulfilled"
    /\ last.response[1].ok
    /\ HoldsToken
    /\ uid = "u1"
    /\ getUid = Return("u1")

\* C30: with two verifyAndSetIdToken calls in flight at the same time, the
\* user id left after both have settled is the first user of the response
\* processed last among those that resolved, whichever call was issued first.
C30_LastProcessedWins ==
    Len(input) = 2 =>
        uid = IF input[2].outcome = "resolved" THEN input[2].user
              ELSE IF input[1].outcome = "resolved" THEN input[1].user
              ELSE ""

\* Both calls succeeded for different users, the call issued second was
\* answered first, and the user id left is that of the call issued first.
C30_Witness ==
    /\ Len(input) = 2
    /\ calls = EmptyBag
    /\ input[1] = [token |-> "tok2", outcome |-> "resolved", user |-> "u2"]
    /\ input[2] = [token |-> "tok1", outcome |-> "resolved", user |-> "u1"]
    /\ uid = "u1"
    /\ getUid = Return("u1")

====
